---- MODULE Spec2Model ----
(***************************************************************************)
(* Three SHA-256 command-line tools of app/src/main/assets:                *)
(*   gen_sha256.py        DirectoryDigestMapper    (tool = "mapper")       *)
(*   generate_manifest.py ArchiveManifestGenerator (tool = "manifest")     *)
(*   generate_sha256.py   SidecarChecksumWriter    (tool = "sidecar")      *)
(* One behaviour is one tool run on one input, optionally followed by a    *)
(* second run with the same arguments on whatever the first run left.      *)
(* Paths, file contents and output texts are strings; a digest is the      *)
(* symbolic term sha(<content>), so equal digests mean equal contents.     *)
(***************************************************************************)
EXTENDS FiniteSets, Integers, Sequences, TLC

\* ------------------------------------------------------------- bounds
\* Largest number of files present under the scanned directory, and of
\* entries stored in the archive.
MaxFiles == 3
\* Largest number of files (or sidecar paths) the OS refuses to open.
MaxFaults == 2
\* Largest worker count given with -w.
MaxWorkers == 2
\* Number of consecutive runs of the tool in one behaviour.
MaxRuns == 2

\* ------------------------------------------------------------ strings
Absent == "<absent>"
DirMark == "<dir>"

Char(s, i) == SubSeq(s, i, i)

\* str.endswith
EndsWith(s, suffix) ==
    /\ Len(s) >= Len(suffix)
    /\ SubSeq(s, Len(s) - Len(suffix) + 1, Len(s)) = suffix

StartsWith(s, prefix) ==
    /\ Len(s) >= Len(prefix)
    /\ SubSeq(s, 1, Len(prefix)) = prefix

\* str.rfind for a one-character needle, 1-based; 0 when not found
RFind(s, c) ==
    LET hits == {i \in 1..Len(s) : Char(s, i) = c}
    IN  IF hits = {} THEN 0 ELSE CHOOSE i \in hits : \A j \in hits : j <= i

\* str.replace for a one-character needle
RECURSIVE Replace(_, _, _)
Replace(s, old, new) ==
    IF s = "" THEN ""
    ELSE (IF Char(s, 1) = old THEN new ELSE Char(s, 1))
         \o Replace(SubSeq(s, 2, Len(s)), old, new)

\* Code-point order of the characters that occur in the modelled names.
Alphabet == "./0123456789<>\\abcdefghijklmnopqrstuvwxyz"
Rank(c) == CHOOSE i \in 1..Len(Alphabet) : Char(Alphabet, i) = c

\* Python's < on str: lexicographic by code point
RECURSIVE StrLess(_, _)
StrLess(a, b) ==
    IF b = "" THEN FALSE
    ELSE IF a = "" THEN TRUE
    ELSE IF Char(a, 1) = Char(b, 1)
         THEN StrLess(SubSeq(a, 2, Len(a)), SubSeq(b, 2, Len(b)))
         ELSE Rank(Char(a, 1)) < Rank(Char(b, 1))

\* sorted(): insertion of x into an already sorted sequence
RECURSIVE InsertSorted(_, _)
InsertSorted(x, s) ==
    IF s = <<>> THEN <<x>>
    ELSE IF StrLess(Head(s), x) \/ Head(s) = x
         THEN <<Head(s)>> \o InsertSorted(x, Tail(s))
         ELSE <<x>> \o s

RECURSIVE Sorted(_)
Sorted(s) == IF s = <<>> THEN <<>> ELSE InsertSorted(Head(s), Sorted(Tail(s)))

\* os.path.join / os.path.basename / os.path.relpath on POSIX paths
Join(base, name) == base \o "/" \o name
Basename(p) == SubSeq(p, RFind(p, "/") + 1, Len(p))
RelPath(p, start) == SubSeq(p, Len(start) + 2, Len(p))

\* os.path.splitext(p)[0]: the extension starts at the last dot of the last
\* component, leading dots of that component not counted.
SplitExtRoot(p) ==
    LET sepIndex == RFind(p, "/")
        dotIndex == RFind(p, ".")
    IN  IF /\ dotIndex > sepIndex
           /\ \E k \in (sepIndex + 1)..(dotIndex - 1) : Char(p, k) # "."
        THEN SubSeq(p, 1, dotIndex - 1)
        ELSE p

\* hashlib.sha256(...).hexdigest(), collision-free on the modelled contents
Sha256(content) == "sha(" \o content \o ")"

\* --------------------------------------------------------------- dict
\* A Python dict: a sequence of <<key, value>> in insertion order; assigning
\* to a key already present keeps its position.
DictKeys(d) == {d[i][1] : i \in 1..Len(d)}

DictSet(d, k, v) ==
    IF k \in DictKeys(d)
    THEN [i \in 1..Len(d) |-> IF d[i][1] = k THEN <<k, v>> ELSE d[i]]
    ELSE Append(d, <<k, v>>)

DictGet(d, k) == (CHOOSE i \in 1..Len(d) : d[i][1] = k)

RECURSIVE JsonItems(_)
JsonItems(d) ==
    IF d = <<>> THEN ""
    ELSE "\"" \o Head(d)[1] \o "\": \"" \o Head(d)[2] \o "\""
         \o (IF Len(d) > 1 THEN ", " ELSE "") \o JsonItems(Tail(d))

\* The dict's items ordered by key (json's sort_keys=True)
SortKeys(d) ==
    LET ks == Sorted([i \in 1..Len(d) |-> d[i][1]])
    IN  [i \in 1..Len(d) |-> d[DictGet(d, ks[i])]]

\* json.dumps(d): the items in the dict's own order
JsonDumps(d) == "{" \o JsonItems(d) \o "}"

\* json.dump(d, f, sort_keys=True)
JsonDumpSorted(d) == "{" \o JsonItems(SortKeys(d)) \o "}"

\* -------------------------------------------------------------- state
VARIABLES
    tool,              \* which script runs: "mapper", "manifest", "sidecar"
    pc,                \* position of the main thread
    run,               \* 1 for the first run, 2 for the re-run
    fs,                \* the file system: path -> content, Absent or DirMark
    unreadable,        \* paths whose open(..., "rb") / zf.open raises
    unwritable,        \* paths whose open(..., "w") raises
    listing,           \* order in which the OS lists the scanned files
    reordered,         \* the listing / archive order was changed between runs
    prevRun,           \* <<exit status, digest output>> of the first run
    exitCode,          \* process exit status, -1 while running
    stdout,            \* gen_sha256.py: the JSON text printed
    argGiven,          \* gen_sha256.py: len(sys.argv) >= 2
    cwd,               \* gen_sha256.py: the working directory
    idx,               \* position of the walk / of the entry loop
    result,            \* gen_sha256.py: result
    zip_path,          \* generate_manifest.py: zip_path
    archive,           \* the entries stored at zip_path, in stored order
    sorted_file_names, \* generate_manifest.py: sorted_file_names
    manifest_data,     \* generate_manifest.py: manifest_data
    recursive,         \* generate_sha256.py: args.recursive
    workers,           \* generate_sha256.py: args.workers
    files_to_process,  \* generate_sha256.py: files_to_process
    tasks,             \* the futures of line 93, in submission order
    printed,           \* futures whose result line the main thread printed
    stderr,            \* futures whose read error a worker printed
    banner,            \* the completion banner of line 99 was printed
    fsAtStart          \* the file system when the current run began

commonVars   == <<tool, pc, run, fs, unreadable, unwritable, listing,
                  reordered, prevRun, exitCode, idx>>
mapperVars   == <<stdout, argGiven, cwd, result>>
manifestVars == <<zip_path, archive, sorted_file_names, manifest_data>>
sidecarVars  == <<recursive, workers, files_to_process, tasks, printed,
                  stderr, banner>>
vars == <<commonVars, mapperVars, manifestVars, sidecarVars, fsAtStart>>

\* ------------------------------------------------------- file system
IsFile(f, p) == p \in DOMAIN f /\ f[p] # Absent /\ f[p] # DirMark

\* The regular files below directory root, at any depth
FilesUnder(f, root) == {p \in DOMAIN f : StartsWith(p, root \o "/") /\ IsFile(f, p)}

\* A file directly in root (os.walk lists it with root's own filenames)
IsTopLevel(p, root) == RFind(RelPath(p, root), "/") = 0

\* The sequences that hold each member of S once
RECURSIVE Perms(_)
Perms(S) ==
    IF S = {} THEN {<<>>}
    ELSE UNION {{<<x>> \o s : s \in Perms(S \ {x})} : x \in S}

Pos(s, x) == CHOOSE i \in DOMAIN s : s[i] = x

\* The orders in which os.walk(root), top-down, can yield the files: those of
\* root itself before those of its subdirectories, any order within one
\* directory.
WalkOrders(f, root) ==
    LET own == {p \in FilesUnder(f, root) : IsTopLevel(p, root)}
    IN  {a \o b : a \in Perms(own), b \in Perms(FilesUnder(f, root) \ own)}

\* The walk orders of the present files that keep the files of old in the
\* order they had (a directory nobody reordered)
SameOrder(f, root, old) ==
    {o \in WalkOrders(f, root) :
        \A i, j \in DOMAIN old :
            (i < j /\ IsFile(f, old[i]) /\ IsFile(f, old[j]))
                => Pos(o, old[i]) < Pos(o, old[j])}

\* The sidecar tool's variables while another tool runs
SidecarIdle ==
    /\ recursive = FALSE /\ workers = 1 /\ files_to_process = <<>>
    /\ tasks = <<>> /\ printed = {} /\ stderr = {} /\ banner = FALSE

\* ============================================================ mapper
\* gen_sha256.py
MapperRoot == "r"
MapperDirs == {"r", "w"}
\* The last two are different files on POSIX: "d\b" in r, and "b" in r/d.
MapperFiles == {"r/a", "r/b", "r/d\\b", "r/d/b"}
MapperPaths == MapperFiles \cup {"r/sha256.json", "w/sha256.json"}
MapperContent(p) ==
    CASE p = "r/a" -> "x" [] p = "r/b" -> "y" [] p = "r/d\\b" -> "y" [] OTHER -> "z"

MapperInit ==
    /\ tool = "mapper"
    /\ argGiven \in BOOLEAN
    /\ cwd \in MapperDirs
    /\ \E present \in SUBSET MapperFiles :
          /\ Cardinality(present) <= MaxFiles
          /\ argGiven = FALSE => (present = {} /\ cwd = "w")
          /\ fs = [p \in MapperPaths |->
                      IF p \in present THEN MapperContent(p) ELSE Absent]
          /\ unreadable \in {u \in SUBSET present : Cardinality(u) <= MaxFaults}
    /\ listing \in WalkOrders(fs, MapperRoot)
    /\ unwritable = {}
    /\ stdout = ""
    /\ result = <<>>
    /\ zip_path = "" /\ archive = <<>> /\ sorted_file_names = <<>>
    /\ manifest_data = <<>>
    /\ SidecarIdle

\* sha256_file(path), lines 6-11
Sha256File(f, path) == Sha256(f[path])

\* The key of line 20
MapperKey(file_path, root_dir) == Replace(RelPath(file_path, root_dir), "\\", "/")

\* lines 26-28: no argument
MapperUsage ==
    /\ tool = "mapper" /\ pc = "start" /\ ~argGiven
    /\ pc' = "done" /\ exitCode' = 1
    /\ UNCHANGED <<tool, run, fs, unreadable, unwritable, listing, reordered,
                   prevRun, idx, mapperVars, manifestVars, sidecarVars, fsAtStart>>

\* lines 17-21, one file of the walk that opens
MapperHashFile ==
    /\ tool = "mapper" /\ pc = "start" /\ argGiven
    /\ idx <= Len(listing)
    /\ listing[idx] \notin unreadable
    /\ result' = DictSet(result, MapperKey(listing[idx], MapperRoot),
                         Sha256File(fs, listing[idx]))
    /\ idx' = idx + 1
    /\ UNCHANGED <<tool, pc, run, fs, unreadable, unwritable, listing, reordered,
                   prevRun, exitCode, stdout, argGiven, cwd, manifestVars,
                   sidecarVars, fsAtStart>>

\* line 8 raising: the exception leaves generate_sha256_map and the script
MapperHashFails ==
    /\ tool = "mapper" /\ pc = "start" /\ argGiven
    /\ idx <= Len(listing)
    /\ listing[idx] \in unreadable
    /\ pc' = "done" /\ exitCode' = 1
    /\ UNCHANGED <<tool, run, fs, unreadable, unwritable, listing, reordered,
                   prevRun, idx, mapperVars, manifestVars, sidecarVars, fsAtStart>>

\* lines 23, 31-34: the walk is over, the mapping is printed
MapperDump ==
    /\ tool = "mapper" /\ pc = "start" /\ argGiven
    /\ idx > Len(listing)
    /\ stdout' = JsonDumps(result)
    /\ pc' = "save"
    /\ UNCHANGED <<tool, run, fs, unreadable, unwritable, listing, reordered,
                   prevRun, exitCode, idx, argGiven, cwd, result, manifestVars,
                   sidecarVars, fsAtStart>>

\* lines 37-39: sha256.json in the working directory
MapperSave ==
    /\ tool = "mapper" /\ pc = "save"
    /\ fs' = [fs EXCEPT ![Join(cwd, "sha256.json")] = stdout]
    /\ pc' = "done" /\ exitCode' = 0
    /\ UNCHANGED <<tool, run, unreadable, unwritable, listing, reordered,
                   prevRun, idx, mapperVars, manifestVars, sidecarVars, fsAtStart>>

\* ========================================================== manifest
\* generate_manifest.py
ZipMark == "<zip>"
ManifestZipPaths == {"p/m.zip", "p/m.json", "p/.zip"}
ManifestPaths == ManifestZipPaths \cup {"p/.zip.json"}
\* The entries an archive can store: a name with its decompressed content;
\* "c" can be stored with either of two contents.
Entries ==
    {[filename |-> "a/", content |-> ""], [filename |-> "a/b", content |-> "x"],
     [filename |-> "a\\b", content |-> "y"], [filename |-> "c", content |-> "x"],
     [filename |-> "c", content |-> "y"]}
Archives == UNION {[1..n -> Entries] : n \in 0..MaxFiles}

ManifestInit ==
    /\ tool = "manifest"
    /\ zip_path \in ManifestZipPaths
    /\ \E kind \in {Absent, "junk", ZipMark} :
          /\ fs = [p \in ManifestPaths |-> IF p = zip_path THEN kind ELSE Absent]
          /\ archive \in IF kind = ZipMark THEN Archives ELSE {<<>>}
    /\ unreadable \in {u \in SUBSET {archive[i].filename : i \in DOMAIN archive} :
                          Cardinality(u) <= MaxFaults}
    /\ unwritable = {}
    /\ listing = <<>>
    /\ sorted_file_names = <<>> /\ manifest_data = <<>>
    /\ stdout = "" /\ argGiven = TRUE /\ cwd = "" /\ result = <<>>
    /\ SidecarIdle

\* line 21
ManifestPath(zp) == SplitExtRoot(zp) \o ".json"

\* ZipInfo.is_dir(), of line 30
IsDirEntry(filename) == EndsWith(filename, "/")

\* line 30: the names of the entries that are not directories, in stored order
RECURSIVE FileNames(_)
FileNames(ar) ==
    IF ar = <<>> THEN <<>>
    ELSE (IF IsDirEntry(Head(ar).filename) THEN <<>> ELSE <<Head(ar).filename>>)
         \o FileNames(Tail(ar))

\* zf.open(filename).read(): ZipFile.getinfo finds the entry stored last under
\* that name
EntryContent(ar, filename) ==
    LET last == CHOOSE i \in DOMAIN ar :
                    /\ ar[i].filename = filename
                    /\ \A j \in DOMAIN ar : ar[j].filename = filename => j <= i
    IN  ar[last].content

\* The key of line 43
ManifestKey(filename) == Replace(filename, "\\", "/")

\* lines 16-18
ManifestMissing ==
    /\ tool = "manifest" /\ pc = "start"
    /\ fs[zip_path] = Absent
    /\ pc' = "done" /\ exitCode' = 1
    /\ UNCHANGED <<tool, run, fs, unreadable, unwritable, listing, reordered,
                   prevRun, idx, mapperVars, manifestVars, sidecarVars, fsAtStart>>

\* lines 27, 54-56: not a zip file
ManifestBadZip ==
    /\ tool = "manifest" /\ pc = "start"
    /\ fs[zip_path] \notin {Absent, ZipMark}
    /\ pc' = "done" /\ exitCode' = 1
    /\ UNCHANGED <<tool, run, fs, unreadable, unwritable, listing, reordered,
                   prevRun, idx, mapperVars, manifestVars, sidecarVars, fsAtStart>>

\* lines 27-32
ManifestOpen ==
    /\ tool = "manifest" /\ pc = "start"
    /\ fs[zip_path] = ZipMark
    /\ sorted_file_names' = Sorted(FileNames(archive))
    /\ pc' = "hash"
    /\ UNCHANGED <<tool, run, fs, unreadable, unwritable, listing, reordered,
                   prevRun, exitCode, idx, mapperVars, zip_path, archive,
                   manifest_data, sidecarVars, fsAtStart>>

\* lines 36-45, one entry that decompresses
ManifestHashEntry ==
    /\ tool = "manifest" /\ pc = "hash"
    /\ idx <= Len(sorted_file_names)
    /\ sorted_file_names[idx] \notin unreadable
    /\ manifest_data' =
           DictSet(manifest_data, ManifestKey(sorted_file_names[idx]),
                   Sha256(EntryContent(archive, sorted_file_names[idx])))
    /\ idx' = idx + 1
    /\ UNCHANGED <<tool, pc, run, fs, unreadable, unwritable, listing, reordered,
                   prevRun, exitCode, mapperVars, zip_path, archive,
                   sorted_file_names, sidecarVars, fsAtStart>>

\* An entry that does not decompress is skipped and the loop goes on
ManifestEntrySkipped ==
    /\ tool = "manifest" /\ pc = "hash"
    /\ idx <= Len(sorted_file_names)
    /\ sorted_file_names[idx] \in unreadable
    /\ idx' = idx + 1
    /\ UNCHANGED <<tool, pc, run, fs, unreadable, unwritable, listing, reordered,
                   prevRun, exitCode, mapperVars, manifestVars, sidecarVars,
                   fsAtStart>>

\* lines 38-39 raising, lines 54-59
ManifestEntryFails ==
    /\ tool = "manifest" /\ pc = "hash"
    /\ idx <= Len(sorted_file_names)
    /\ sorted_file_names[idx] \in unreadable
    /\ pc' = "done" /\ exitCode' = 1
    /\ UNCHANGED <<tool, run, fs, unreadable, unwritable, listing, reordered,
                   prevRun, idx, mapperVars, manifestVars, sidecarVars, fsAtStart>>

\* lines 48-52
ManifestWrite ==
    /\ tool = "manifest" /\ pc = "hash"
    /\ idx > Len(sorted_file_names)
    /\ fs' = [fs EXCEPT ![ManifestPath(zip_path)] = JsonDumpSorted(manifest_data)]
    /\ pc' = "done" /\ exitCode' = 0
    /\ UNCHANGED <<tool, run, unreadable, unwritable, listing, reordered,
                   prevRun, idx, mapperVars, manifestVars, sidecarVars, fsAtStart>>

\* =========================================================== sidecar
\* generate_sha256.py
TargetDir == "t"
\* Files that may be there before the first run: three ordinary files (one in
\* the subdirectory t/d), the sidecar an earlier run wrote for t/f, and a
\* sidecar whose original is gone.
SidecarFiles == {"t/f", "t/g", "t/d/f", "t/f.sha256", "t/o.sha256"}
SidecarPaths ==
    SidecarFiles \cup {"t", "t/d", "t/g.sha256", "t/d/f.sha256"}
SidecarContent(p) ==
    CASE p = "t/f" -> "x" [] p = "t/g" -> "y" [] p = "t/d/f" -> "z"
      [] p = "t/f.sha256" -> "sha(old)  f\n" [] OTHER -> "sha(gone)  o\n"

\* The entries directly in directory d (files and directories)
EntriesIn(f, d) ==
    {p \in DOMAIN f : StartsWith(p, d \o "/") /\ f[p] # Absent /\ IsTopLevel(p, d)}

\* The members of S as a sequence in code-point order
RECURSIVE SortedSeq(_)
SortedSeq(S) ==
    IF S = {} THEN <<>>
    ELSE LET least == CHOOSE x \in S : \A y \in S : x = y \/ StrLess(x, y)
         IN  <<least>> \o SortedSeq(S \ {least})

\* What the scan of lines 72-73 (os.walk: files only, directory by directory)
\* or of line 79 (os.listdir: every entry of the target) goes through.
ScanListing(f, rec) ==
    IF rec
    THEN SortedSeq({p \in EntriesIn(f, TargetDir) : IsFile(f, p)})
         \o SortedSeq({p \in FilesUnder(f, TargetDir) : ~IsTopLevel(p, TargetDir)})
    ELSE SortedSeq(EntriesIn(f, TargetDir))

SidecarInit ==
    /\ tool = "sidecar"
    /\ recursive \in BOOLEAN
    /\ workers \in 1..MaxWorkers
    /\ \E isDir \in BOOLEAN, present \in SUBSET SidecarFiles :
          /\ Cardinality(present) <= MaxFiles
          /\ ~isDir => present = {}
          /\ fs = [p \in SidecarPaths |->
                      CASE p \in present -> SidecarContent(p)
                        [] p = "t" /\ isDir -> DirMark
                        [] p = "t/d" /\ "t/d/f" \in present -> DirMark
                        [] OTHER -> Absent]
    /\ \E faulty \in SUBSET {p \in SidecarPaths : IsFile(fs, p) \/ IsFile(fs, SplitExtRoot(p))} :
          /\ Cardinality(faulty) <= MaxFaults
          /\ unreadable = {p \in faulty : ~EndsWith(p, ".sha256")}
          /\ unwritable = {p \in faulty : EndsWith(p, ".sha256")}
    /\ listing = ScanListing(fs, recursive)
    /\ files_to_process = <<>> /\ tasks = <<>>
    /\ printed = {} /\ stderr = {} /\ banner = FALSE
    /\ stdout = "" /\ argGiven = TRUE /\ cwd = "" /\ result = <<>>
    /\ zip_path = "" /\ archive = <<>> /\ sorted_file_names = <<>>
    /\ manifest_data = <<>>

\* A sidecar named after the basename alone, in the target directory
SidecarNameFlat(filepath) == Join(TargetDir, Basename(filepath)) \o ".sha256"

\* line 28
SidecarName(filepath) == filepath \o ".sha256"

\* The line with the path as given instead of the basename
SidecarLineFullPath(hex_digest, filepath) ==
    hex_digest \o "  " \o filepath \o "\n"

\* line 33
SidecarLine(hex_digest, filepath) ==
    hex_digest \o "  " \o Basename(filepath) \o "\n"

\* The filter without the test of the suffix
IsCandidateAnyName(f, rec, path) == IF rec THEN TRUE ELSE IsFile(f, path)

\* lines 75 and 82: the filter of the scan
IsCandidate(f, rec, path) ==
    IF rec
    THEN ~EndsWith(Basename(path), ".sha256")
    ELSE IsFile(f, path) /\ ~EndsWith(Basename(path), ".sha256")

\* What process_file returns
RetPending == "<pending>"
RetNone == "<None>"
RetSuccess(filepath) == "ok: " \o Basename(SidecarName(filepath))
RetWriteError(filepath) == "error: cannot write " \o SidecarName(filepath)

TaskIds == DOMAIN tasks
Running == {i \in TaskIds : tasks[i].st \in {"reading", "hashed", "writing"}}

\* lines 65-67
SidecarNotDir ==
    /\ tool = "sidecar" /\ pc = "start"
    /\ fs[TargetDir] # DirMark
    /\ pc' = "done" /\ exitCode' = 1
    /\ UNCHANGED <<tool, run, fs, unreadable, unwritable, listing, reordered,
                   prevRun, idx, mapperVars, manifestVars, sidecarVars, fsAtStart>>

\* lines 65, 69-71 / 78: the target is a directory, the scan begins
SidecarBeginScan ==
    /\ tool = "sidecar" /\ pc = "start"
    /\ fs[TargetDir] = DirMark
    /\ pc' = "scan"
    /\ UNCHANGED <<tool, run, fs, unreadable, unwritable, listing, reordered,
                   prevRun, exitCode, idx, mapperVars, manifestVars, sidecarVars,
                   fsAtStart>>

\* A scan that stops after its first entry
ScanCompleteEarly == idx > 1 \/ idx > Len(listing)

\* The scan of lines 72-76 / 79-83 has gone through every entry
ScanComplete == idx > Len(listing)

\* lines 72-76 / 79-83, one entry
SidecarScanEntry ==
    /\ tool = "sidecar" /\ pc = "scan"
    /\ ~ScanComplete
    /\ files_to_process' =
           IF IsCandidate(fs, recursive, listing[idx])
           THEN Append(files_to_process, listing[idx])
           ELSE files_to_process
    /\ idx' = idx + 1
    /\ UNCHANGED <<tool, pc, run, fs, unreadable, unwritable, listing, reordered,
                   prevRun, exitCode, mapperVars, manifestVars, recursive, workers,
                   tasks, printed, stderr, banner, fsAtStart>>

\* lines 85-87: nothing to process, main returns
SidecarNothing ==
    /\ tool = "sidecar" /\ pc = "scan"
    /\ ScanComplete
    /\ files_to_process = <<>>
    /\ pc' = "done" /\ exitCode' = 0
    /\ UNCHANGED <<tool, run, fs, unreadable, unwritable, listing, reordered,
                   prevRun, idx, mapperVars, manifestVars, sidecarVars, fsAtStart>>

\* lines 89-92: the pool is created
SidecarBeginSubmit ==
    /\ tool = "sidecar" /\ pc = "scan"
    /\ ScanComplete
    /\ files_to_process # <<>>
    /\ pc' = "submit"
    /\ UNCHANGED <<tool, run, fs, unreadable, unwritable, listing, reordered,
                   prevRun, exitCode, idx, mapperVars, manifestVars, sidecarVars,
                   fsAtStart>>

\* line 93, one executor.submit
SidecarSubmit ==
    /\ tool = "sidecar" /\ pc = "submit"
    /\ Len(tasks) < Len(files_to_process)
    /\ tasks' = Append(tasks, [filepath |-> files_to_process[Len(tasks) + 1],
                               st |-> "queued", hex_digest |-> "",
                               ret |-> RetPending])
    /\ UNCHANGED <<tool, pc, run, fs, unreadable, unwritable, listing, reordered,
                   prevRun, exitCode, idx, mapperVars, manifestVars, recursive,
                   workers, files_to_process, printed, stderr, banner, fsAtStart>>

\* line 93 finished, line 94 begins
SidecarBeginDrain ==
    /\ tool = "sidecar" /\ pc = "submit"
    /\ Len(tasks) = Len(files_to_process)
    /\ pc' = "drain"
    /\ UNCHANGED <<tool, run, fs, unreadable, unwritable, listing, reordered,
                   prevRun, exitCode, idx, mapperVars, manifestVars, sidecarVars,
                   fsAtStart>>

\* A free worker takes the oldest queued task; lines 14 and 25-26: the file
\* opens for reading
TaskOpenRead(i) ==
    /\ tool = "sidecar" /\ i \in TaskIds
    /\ tasks[i].st = "queued"
    /\ \A j \in TaskIds : j < i => tasks[j].st # "queued"
    /\ Cardinality(Running) < workers
    /\ tasks[i].filepath \notin unreadable
    /\ tasks' = [tasks EXCEPT ![i].st = "reading"]
    /\ UNCHANGED <<tool, pc, run, fs, unreadable, unwritable, listing, reordered,
                   prevRun, exitCode, idx, mapperVars, manifestVars, recursive,
                   workers, files_to_process, printed, stderr, banner, fsAtStart>>

\* lines 14, 19-21 and 37: the file does not open; the worker reports it and
\* process_file returns None
TaskReadFails(i) ==
    /\ tool = "sidecar" /\ i \in TaskIds
    /\ tasks[i].st = "queued"
    /\ \A j \in TaskIds : j < i => tasks[j].st # "queued"
    /\ Cardinality(Running) < workers
    /\ tasks[i].filepath \in unreadable
    /\ tasks' = [tasks EXCEPT ![i].st = "finished", ![i].ret = RetNone]
    /\ stderr' = stderr \cup {i}
    /\ UNCHANGED <<tool, pc, run, fs, unreadable, unwritable, listing, reordered,
                   prevRun, exitCode, idx, mapperVars, manifestVars, recursive,
                   workers, files_to_process, printed, banner, fsAtStart>>

\* lines 16-18: the file is read to its end and closed
TaskHashed(i) ==
    /\ tool = "sidecar" /\ i \in TaskIds
    /\ tasks[i].st = "reading"
    /\ tasks' = [tasks EXCEPT ![i].st = "hashed",
                              ![i].hex_digest = Sha256(fs[tasks[i].filepath])]
    /\ UNCHANGED <<tool, pc, run, fs, unreadable, unwritable, listing, reordered,
                   prevRun, exitCode, idx, mapperVars, manifestVars, recursive,
                   workers, files_to_process, printed, stderr, banner, fsAtStart>>

\* lines 27-30: the sidecar opens for writing, which empties it
TaskOpenWrite(i) ==
    /\ tool = "sidecar" /\ i \in TaskIds
    /\ tasks[i].st = "hashed"
    /\ SidecarName(tasks[i].filepath) \notin unwritable
    /\ fs' = [fs EXCEPT ![SidecarName(tasks[i].filepath)] = ""]
    /\ tasks' = [tasks EXCEPT ![i].st = "writing"]
    /\ UNCHANGED <<tool, pc, run, unreadable, unwritable, listing, reordered,
                   prevRun, exitCode, idx, mapperVars, manifestVars, recursive,
                   workers, files_to_process, printed, stderr, banner, fsAtStart>>

\* lines 30, 35-36: the sidecar does not open
TaskWriteFails(i) ==
    /\ tool = "sidecar" /\ i \in TaskIds
    /\ tasks[i].st = "hashed"
    /\ SidecarName(tasks[i].filepath) \in unwritable
    /\ tasks' = [tasks EXCEPT ![i].st = "finished",
                              ![i].ret = RetWriteError(tasks[i].filepath)]
    /\ UNCHANGED <<tool, pc, run, fs, unreadable, unwritable, listing, reordered,
                   prevRun, exitCode, idx, mapperVars, manifestVars, recursive,
                   workers, files_to_process, printed, stderr, banner, fsAtStart>>

\* lines 33-34: the line is written, the sidecar closed
TaskWrite(i) ==
    /\ tool = "sidecar" /\ i \in TaskIds
    /\ tasks[i].st = "writing"
    /\ fs' = [fs EXCEPT ![SidecarName(tasks[i].filepath)] =
                            SidecarLine(tasks[i].hex_digest, tasks[i].filepath)]
    /\ tasks' = [tasks EXCEPT ![i].st = "finished",
                              ![i].ret = RetSuccess(tasks[i].filepath)]
    /\ UNCHANGED <<tool, pc, run, unreadable, unwritable, listing, reordered,
                   prevRun, exitCode, idx, mapperVars, manifestVars, recursive,
                   workers, files_to_process, printed, stderr, banner, fsAtStart>>

\* The test of line 96 inverted
TruthyInverted(ret) == ret = RetNone

\* line 96: `if result:`
Truthy(ret) == ret # RetNone

\* lines 94-97: as_completed yields a finished future, its result is printed
\* unless it is None
SidecarDrain(i) ==
    /\ tool = "sidecar" /\ pc = "drain"
    /\ i \in TaskIds
    /\ tasks[i].st = "finished"
    /\ tasks' = [tasks EXCEPT ![i].st = "yielded"]
    /\ printed' = IF Truthy(tasks[i].ret) THEN printed \cup {i} ELSE printed
    /\ UNCHANGED <<tool, pc, run, fs, unreadable, unwritable, listing, reordered,
                   prevRun, exitCode, idx, mapperVars, manifestVars, recursive,
                   workers, files_to_process, stderr, banner, fsAtStart>>

\* lines 94, 99: every future was yielded, the pool shuts down, the banner is
\* printed and main returns
SidecarBanner ==
    /\ tool = "sidecar" /\ pc = "drain"
    /\ \A i \in TaskIds : tasks[i].st = "yielded"
    /\ banner' = TRUE
    /\ pc' = "done" /\ exitCode' = 0
    /\ UNCHANGED <<tool, run, fs, unreadable, unwritable, listing, reordered,
                   prevRun, idx, mapperVars, manifestVars, recursive, workers,
                   files_to_process, tasks, printed, stderr, fsAtStart>>

\* ------------------------------------------------------------ re-runs
\* The sidecars below the target with their contents, in path order
RECURSIVE Concat(_, _)
Concat(f, s) ==
    IF s = <<>> THEN ""
    ELSE Head(s) \o ": " \o f[Head(s)] \o Concat(f, Tail(s))

SidecarOutput ==
    Concat(fs, SortedSeq({p \in FilesUnder(fs, TargetDir) : EndsWith(p, ".sha256")}))

\* The digest output of the finished run
Output ==
    CASE tool = "mapper" -> stdout
      [] tool = "manifest" ->
            IF exitCode = 0 THEN fs[ManifestPath(zip_path)] ELSE ""
      [] OTHER -> SidecarOutput

\* The same command line is started again
BeginRun(order) ==
    /\ pc = "done" /\ run < MaxRuns
    /\ run' = run + 1
    /\ prevRun' = <<exitCode, Output>>
    /\ pc' = "start" /\ exitCode' = -1 /\ idx' = 1
    /\ listing' = order
    /\ fsAtStart' = fs
    /\ stdout' = "" /\ result' = <<>>
    /\ sorted_file_names' = <<>> /\ manifest_data' = <<>>
    /\ files_to_process' = <<>> /\ tasks' = <<>> /\ printed' = {}
    /\ stderr' = {} /\ banner' = FALSE
    /\ UNCHANGED <<tool, fs, unreadable, unwritable, argGiven, cwd, zip_path,
                   recursive, workers>>

\* gen_sha256.py again; nobody touched the tree in between
MapperRerun ==
    /\ tool = "mapper" /\ pc = "done" /\ run < MaxRuns
    /\ \E o \in SameOrder(fs, MapperRoot, listing) : BeginRun(o)
    /\ UNCHANGED <<reordered, archive>>

\* gen_sha256.py again on the same files, listed in another order (the tree
\* was copied, restored, or lives on another file system)
MapperRerunReordered ==
    /\ tool = "mapper" /\ pc = "done" /\ run < MaxRuns
    /\ \E o \in WalkOrders(fs, MapperRoot) : o # listing /\ BeginRun(o)
    /\ reordered' = TRUE
    /\ UNCHANGED archive

\* generate_manifest.py again; nobody touched the archive in between
ManifestRerun ==
    /\ tool = "manifest"
    /\ BeginRun(listing)
    /\ UNCHANGED <<reordered, archive>>

\* generate_manifest.py again on an archive that stores the same entries in
\* another order (it was repacked)
ManifestRerunRepacked ==
    /\ tool = "manifest" /\ pc = "done" /\ run < MaxRuns
    /\ fs[zip_path] = ZipMark
    /\ \E perm \in Perms(DOMAIN archive) :
          /\ archive' = [i \in DOMAIN archive |-> archive[perm[i]]]
          /\ archive' # archive
    /\ BeginRun(listing)
    /\ reordered' = TRUE

\* generate_sha256.py again; nobody touched the directory in between
SidecarRerun ==
    /\ tool = "sidecar" /\ pc = "done" /\ run < MaxRuns
    /\ BeginRun(ScanListing(fs, recursive))
    /\ UNCHANGED <<reordered, archive>>

Init ==
    /\ pc = "start" /\ run = 1 /\ exitCode = -1 /\ idx = 1
    /\ reordered = FALSE /\ prevRun = <<-1, "">>
    /\ (MapperInit \/ ManifestInit \/ SidecarInit)
    /\ fsAtStart = fs

MapperNext ==
    \/ MapperUsage \/ MapperHashFile \/ MapperHashFails \/ MapperDump \/ MapperSave
    \/ MapperRerun \/ MapperRerunReordered

ManifestNext ==
    \/ ManifestMissing \/ ManifestBadZip \/ ManifestOpen \/ ManifestHashEntry
    \/ ManifestEntryFails \/ ManifestWrite
    \/ ManifestRerun \/ ManifestRerunRepacked

\* One step of a run of generate_sha256.py: of the main thread or of a worker
SidecarStep ==
    \/ SidecarNotDir \/ SidecarBeginScan \/ SidecarScanEntry \/ SidecarNothing
    \/ SidecarBeginSubmit \/ SidecarSubmit \/ SidecarBeginDrain
    \/ \E i \in TaskIds : TaskOpenRead(i)
    \/ \E i \in TaskIds : TaskReadFails(i)
    \/ \E i \in TaskIds : TaskHashed(i)
    \/ \E i \in TaskIds : TaskOpenWrite(i)
    \/ \E i \in TaskIds : TaskWriteFails(i)
    \/ \E i \in TaskIds : TaskWrite(i)
    \/ \E i \in TaskIds : SidecarDrain(i)
    \/ SidecarBanner

SidecarNext == SidecarStep \/ SidecarRerun

Next == MapperNext \/ ManifestNext \/ SidecarNext

Spec == Init /\ [][Next]_vars

\* generate_sha256.py alone. The main thread and the pool's worker threads are
\* OS threads that keep being scheduled, and no step of the script waits for
\* anything but a worker or a finished future: a step that stays possible is
\* eventually taken. Nothing makes the user start the second run.
SidecarOnly ==
    /\ pc = "start" /\ run = 1 /\ exitCode = -1 /\ idx = 1
    /\ reordered = FALSE /\ prevRun = <<-1, "">>
    /\ SidecarInit
    /\ fsAtStart = fs

SidecarFairSpec == SidecarOnly /\ [][SidecarNext]_vars /\ WF_vars(SidecarStep)

\* ============================================================ claims
\* A run of generate_sha256.py that got past the directory check of line 65
SidecarRun == tool = "sidecar" /\ fsAtStart[TargetDir] = DirMark

\* Candidate number k of the current run fails: its file does not open for
\* reading, or its sidecar does not open for writing
FailsAt(k) ==
    \/ files_to_process[k] \in unreadable
    \/ (files_to_process[k] \o ".sha256") \in unwritable

\* C1: in SidecarChecksumWriter a read failure or a sidecar-write failure on
\* one candidate does not stop the others. When a run over N candidates of
\* which k fail has finished, each of the N-k candidates that do not fail has
\* the sidecar <original-filename>.sha256 holding "<hex-digest>  <basename>\n",
\* exactly those N-k tasks returned success, each failing candidate was
\* reported as an error (on stderr by its worker for a read failure, as the
\* printed result for a write failure) and left its sidecar path as it was, and
\* the exit status is 0.
C1_PerFileFailureIsolated ==
    (SidecarRun /\ pc = "done") =>
        LET n == Len(files_to_process)
            failing == {k \in 1..n : FailsAt(k)}
        IN  /\ exitCode = 0
            /\ Len(tasks) = n
            /\ \A k \in (1..n) \ failing :
                  /\ fs[files_to_process[k] \o ".sha256"] =
                         Sha256(fs[files_to_process[k]]) \o "  "
                         \o Basename(files_to_process[k]) \o "\n"
                  /\ StartsWith(tasks[k].ret, "ok: ")
            /\ Cardinality({k \in 1..n : StartsWith(tasks[k].ret, "ok: ")})
                   = n - Cardinality(failing)
            /\ \A k \in failing :
                  /\ fs[files_to_process[k] \o ".sha256"] =
                         fsAtStart[files_to_process[k] \o ".sha256"]
                  /\ IF files_to_process[k] \in unreadable
                     THEN k \in stderr
                     ELSE k \in printed /\ StartsWith(tasks[k].ret, "error: ")

\* C1 witness: a finished first run over three candidates of which exactly one
\* failed, with the other two sidecars written.
C1_Witness ==
    /\ SidecarRun /\ pc = "done" /\ run = 1
    /\ Len(files_to_process) = 3
    /\ Cardinality({k \in 1..3 : FailsAt(k)}) = 1
    /\ Cardinality({k \in 1..3 : StartsWith(tasks[k].ret, "ok: ")}) = 2

\* C3: SidecarChecksumWriter never puts a file whose name ends in .sha256 into
\* its candidate list (recursive or not), never hashes one, and every .sha256
\* file that was there when the run began and is not the sidecar of one of this
\* run's candidates still has the content it had.
C3_SidecarsExcludedAndUntouched ==
    tool = "sidecar" =>
        /\ \A k \in DOMAIN files_to_process :
              ~EndsWith(Basename(files_to_process[k]), ".sha256")
        /\ \A i \in TaskIds : ~EndsWith(Basename(tasks[i].filepath), ".sha256")
        /\ \A p \in DOMAIN fs :
              (/\ EndsWith(p, ".sha256")
               /\ IsFile(fsAtStart, p)
               /\ \A k \in DOMAIN files_to_process :
                     p # files_to_process[k] \o ".sha256")
                  => fs[p] = fsAtStart[p]

\* C3 witness: a finished run that found an older sidecar without a candidate
\* (t/o.sha256) beside a candidate whose older sidecar it has rewritten.
C3_Witness ==
    /\ SidecarRun /\ pc = "done" /\ banner /\ run = 1
    /\ IsFile(fsAtStart, "t/o.sha256")
    /\ IsFile(fsAtStart, "t/f.sha256")
    /\ fs["t/f.sha256"] # fsAtStart["t/f.sha256"]

\* The candidates among the entries the scan goes through, stated from the
\* file system at the start of the run
RECURSIVE RegularNonSidecars(_)
RegularNonSidecars(entries) ==
    IF entries = <<>> THEN <<>>
    ELSE (IF IsFile(fsAtStart, Head(entries)) /\ ~EndsWith(Head(entries), ".sha256")
          THEN <<Head(entries)>> ELSE <<>>)
         \o RegularNonSidecars(Tail(entries))

\* C8: in SidecarChecksumWriter enumeration completes before any hashing
\* begins. No task exists while the list is being built; from the first
\* submission on the list is the complete enumeration and stays it; task k
\* processes entry k of the list, so the files processed are exactly the files
\* enumerated; and no task processes a file that did not exist when the run
\* began (a sidecar created during the run).
C8_EnumerationBeforeHashing ==
    tool = "sidecar" =>
        /\ pc \in {"start", "scan"} => tasks = <<>>
        /\ (pc \in {"submit", "drain"} \/ tasks # <<>>)
              => files_to_process = RegularNonSidecars(listing)
        /\ Len(tasks) <= Len(files_to_process)
        /\ \A i \in TaskIds :
              /\ tasks[i].filepath = files_to_process[i]
              /\ IsFile(fsAtStart, tasks[i].filepath)
        /\ banner => Len(tasks) = Len(files_to_process)

\* C8 witness: a recursive run with three tasks, one of them writing a sidecar
\* that did not exist when the run began, while results are being drained.
C8_Witness ==
    /\ tool = "sidecar" /\ recursive /\ pc = "drain"
    /\ Len(tasks) = 3
    /\ \E i \in TaskIds :
          /\ tasks[i].st = "writing"
          /\ fsAtStart[SidecarName(tasks[i].filepath)] = Absent
          /\ fs[SidecarName(tasks[i].filepath)] # Absent

\* Tasks that hold path p open
Writers(p) == {i \in TaskIds : tasks[i].st = "writing" /\ SidecarName(tasks[i].filepath) = p}
Readers(p) == {i \in TaskIds : tasks[i].st = "reading" /\ tasks[i].filepath = p}

\* C9: the tasks of one SidecarChecksumWriter run share no file. Two distinct
\* tasks have different input files and different sidecar paths, no task's
\* sidecar path is another task's input, and so at no moment is a file open
\* for writing in two tasks, or open for writing in one task and for reading
\* in another.
C9_TasksShareNoFile ==
    tool = "sidecar" =>
        /\ \A i, j \in TaskIds :
              i # j =>
                 /\ tasks[i].filepath # tasks[j].filepath
                 /\ SidecarName(tasks[i].filepath) # SidecarName(tasks[j].filepath)
                 /\ SidecarName(tasks[i].filepath) # tasks[j].filepath
        /\ \A p \in DOMAIN fs :
              /\ Cardinality(Writers(p)) <= 1
              /\ Writers(p) # {} => Readers(p) = {}

\* C9 witness: two workers at once, one task writing its sidecar while another
\* task reads its file.
C9_Witness ==
    /\ tool = "sidecar"
    /\ \E i, j \in TaskIds :
          i # j /\ tasks[i].st = "writing" /\ tasks[j].st = "reading"

\* What the amended C2 promises of a finished run
SidecarReported ==
    /\ pc = "done" /\ exitCode = 0
    /\ files_to_process = RegularNonSidecars(listing)
    /\ IF files_to_process = <<>>
       THEN ~banner /\ printed = {}
       ELSE /\ banner
            /\ \A k \in DOMAIN files_to_process :
                  IF files_to_process[k] \in unreadable
                  THEN k \in stderr /\ k \notin printed
                  ELSE k \in printed

MapperReadFailure ==
    tool = "mapper" /\ argGiven /\ \E i \in DOMAIN listing : listing[i] \in unreadable
ManifestFailure ==
    /\ tool = "manifest"
    /\ \/ fsAtStart[zip_path] # ZipMark
       \/ \E i \in DOMAIN archive :
             /\ ~EndsWith(archive[i].filename, "/")
             /\ archive[i].filename \in unreadable

\* C7: in the two single-threaded tools a failure is fatal and the output is
\* all or nothing. An unreadable file anywhere in DirectoryDigestMapper's walk,
\* and a missing input, a non-zip input or a failing entry anywhere in
\* ArchiveManifestGenerator, end the run with exit status 1, with no file
\* created or changed and no mapping printed.
C7_FailureIsFatalAllOrNothing ==
    (pc = "done" /\ (MapperReadFailure \/ ManifestFailure)) =>
        /\ exitCode = 1
        /\ fs = fsAtStart
        /\ stdout = ""

\* C7 witness: the manifest generator stopped at its second entry, after
\* hashing the first.
C7_Witness ==
    /\ tool = "manifest" /\ pc = "done" /\ exitCode = 1
    /\ idx = 2 /\ Len(manifest_data) = 1

\* C4: the mapping of DirectoryDigestMapper and the manifest of
\* ArchiveManifestGenerator hold exactly one entry per regular file (per
\* non-directory entry): as many keys as files, no two files under one key.
C4_OneEntryPerFile ==
    (pc = "done" /\ exitCode = 0) =>
        /\ tool = "mapper" => Cardinality(DictKeys(result)) = Len(listing)
        /\ tool = "manifest" =>
              Cardinality(DictKeys(manifest_data)) = Len(FileNames(archive))

\* The keys of d, as ordered in it, ascend
KeysAscend(d) == \A i, j \in DOMAIN d : i < j => StrLess(d[i][1], d[j][1])

\* C5: the output of the hashing tools does not depend on the order in which
\* the walk visits the same files or the archive stores the same entries: a
\* second run over the same files or entries, in whatever order, ends with the
\* same exit status and the same serialized output as the first; and the keys
\* of the archive manifest are written in ascending order.
C5_OrderIndependentOutput ==
    /\ (/\ pc = "done" /\ run = 2
        /\ \/ tool = "mapper" /\ cwd # MapperRoot
           \/ tool = "manifest" /\ fsAtStart[zip_path] = ZipMark)
           => <<exitCode, Output>> = prevRun
    /\ (tool = "manifest" /\ pc = "done" /\ exitCode = 0)
           => \E d \in {SortKeys(manifest_data)} :
                 KeysAscend(d) /\ fs[ManifestPath(zip_path)] = JsonDumps(d)

\* C6: re-running a tool with the same arguments on input nobody else changed
\* gives the same digest output, also when the first run's output files lie
\* in the scanned directory.
C6_RerunGivesSameOutput ==
    (pc = "done" /\ run = 2 /\ ~reordered) => <<exitCode, Output>> = prevRun

\* C10: ArchiveManifestGenerator never modifies its input archive: what is at
\* zip_path during and after a run is what was there when the run began.
C10_ArchiveNeverModified ==
    tool = "manifest" => fs[zip_path] = fsAtStart[zip_path]

====
